---- MODULE Spec2Model ----
(***************************************************************************)
(* A model of site_health's SiteCrawler (src/site_health/crawler.py): the  *)
(* breadth-first crawl loop, the concurrent _crawl_page tasks of one       *)
(* layer and the _check_link calls each of them fans out under the         *)
(* semaphore.  Tasks are asyncio tasks: a step of the model is the code a  *)
(* coroutine runs between two awaits.                                      *)
(*                                                                         *)
(* Strings are sequences of tokens ("https://", a host, path segments,     *)
(* an extension, a query, a fragment); None is <<>> and a present          *)
(* optional value x is <<x>>.  Times are tenths of a second.               *)
(***************************************************************************)
EXTENDS Integers, Sequences, FiniteSets, TLC

VARIABLES
    start_url, max_depth, max_concurrent, timeout, respect_robots, domain,
    visited, results, pages_crawled, depth_map, semaphore,
    queue, pc, awaited, ptasks, ctasks,
    gets, failures,
    sample, db, cmd, call

\* start_url .. domain: the constructor's arguments and what it derives from them
\* visited .. semaphore: the crawler's fields
\* queue, pc:            crawl()'s local queue and its position
\* awaited:              the indices of the tasks crawl()'s gather waits for
\* ptasks:               the _crawl_page tasks created so far, in creation order
\* ctasks:               the live _check_link calls, <<p, k>> being the k-th call
\*                       gathered by page task p (p = 0: a direct call); a page
\*                       task keeps the reply its GET settled with; sent,
\*                       head_reply and get_reply record the requests a call
\*                       made and how each settled
\* gets, failures:       history: page GETs issued per URL, and the <<source,
\*                       target>> pairs whose request failed
\* sample:               a call of select_stratified_sample: its arguments, its
\*                       position and the list it returned
\* db:                   the crawls row and the link_results rows of one crawl id
\* cmd:                  the CLI crawl command or the web background task that
\*                       runs the crawler: which of the two, and its position
\* call:                 a call of one of the pure functions: its arguments, its
\*                       position and what it returned
config == <<start_url, max_depth, max_concurrent, timeout, respect_robots, domain>>
vars == <<start_url, max_depth, max_concurrent, timeout, respect_robots, domain,
          visited, results, pages_crawled, depth_map, semaphore,
          queue, pc, awaited, ptasks, ctasks,
          gets, failures, sample, db, cmd, call>>

\* what lies outside the SiteCrawler object
outside == <<sample, db, cmd, call>>

None == <<>>
Some(x) == <<x>>

(***************************************************************************)
(* Bounds of the model.                                                    *)
(***************************************************************************)
MaxDepthBound == 2
MaxConcurrentBound == 2

(***************************************************************************)
(* The token alphabet of URL strings.                                      *)
(***************************************************************************)
SchemeTok == "https://"
HostTokens == {"example.com", "other.org", "simple.test", "ext.test", "bad.test"}
QueryTokens == {"?v=1"}
FragTokens == {"#top", "#anchor"}
\* a relative path segment, and the form it takes once joined to a directory
RelTokens == {"page.html"}
Joined(t) == IF t = "page.html" THEN "/page.html" ELSE t
\* the tokens that continue a path segment instead of starting one
ExtTokens == {".png", ".jpg", ".jpeg", ".gif", ".svg", ".webp", ".ico", ".css", ".js",
              ".PNG", ".CSS", ".JS"}
ImageExts == {".png", ".jpg", ".jpeg", ".gif", ".svg", ".webp", ".ico"}

\* str.lower() on a token
Lower(t) ==
    CASE t = ".PNG" -> ".png"
      [] t = ".CSS" -> ".css"
      [] t = ".JS" -> ".js"
      [] OTHER -> t

RECURSIVE FirstAt(_, _, _)
\* index of the first token of s, from i on, that is in S; Len(s)+1 if none
FirstAt(s, S, i) ==
    IF i > Len(s) THEN Len(s) + 1
    ELSE IF s[i] \in S THEN i
    ELSE FirstAt(s, S, i + 1)

urlparse(url) ==
    LET hasScheme == Len(url) >= 1 /\ url[1] = SchemeTok
        hasNet == hasScheme /\ Len(url) >= 2 /\ url[2] \in HostTokens
        rest == SubSeq(url, (IF hasNet THEN 3 ELSE IF hasScheme THEN 2 ELSE 1), Len(url))
        f == FirstAt(rest, FragTokens, 1)
        beforeF == SubSeq(rest, 1, f - 1)
        q == FirstAt(beforeF, QueryTokens, 1)
    IN  [scheme |-> IF hasScheme THEN <<SchemeTok>> ELSE <<>>,
         netloc |-> IF hasNet THEN <<url[2]>> ELSE <<>>,
         path |-> SubSeq(beforeF, 1, q - 1),
         params |-> <<>>,
         query |-> SubSeq(beforeF, q, Len(beforeF)),
         fragment |-> SubSeq(rest, f, Len(rest))]

urlunparse(p) ==
    p.scheme \o p.netloc \o p.path \o p.params \o p.query \o p.fragment

RECURSIVE DirOf(_)
\* a path without its last segment: `base_parts[:-1]` of urljoin
DirOf(path) ==
    IF path = <<>> THEN <<>>
    ELSE IF path[Len(path)] \in ExtTokens THEN DirOf(SubSeq(path, 1, Len(path) - 1))
    ELSE SubSeq(path, 1, Len(path) - 1)

\* urljoin for the references the pages of the model hold: an absolute URL,
\* an absolute path, a relative path, a query-only or fragment-only reference,
\* the empty string
urljoin(base, url) ==
    LET b == urlparse(base)
        u == urlparse(url)
    IN  IF url = <<>> THEN base
        ELSE IF u.scheme # <<>> THEN url
        ELSE IF u.path # <<>> /\ u.path[1] \in RelTokens
            THEN urlunparse([b EXCEPT !.path = DirOf(b.path) \o <<Joined(u.path[1])>>
                                                \o Tail(u.path),
                                      !.query = u.query, !.fragment = u.fragment])
        ELSE IF u.path # <<>>
            THEN urlunparse([b EXCEPT !.path = u.path, !.query = u.query,
                                      !.fragment = u.fragment])
        ELSE IF u.query # <<>>
            THEN urlunparse([b EXCEPT !.query = u.query, !.fragment = u.fragment])
        ELSE urlunparse([b EXCEPT !.fragment = u.fragment])

base_domain == <<SchemeTok>> \o domain

\* a normalization that resolves the reference and keeps its fragment
NormalizeKeepsFragment(url, base_url) == urljoin(base_url, url)

_normalize_url(url, base_url) ==
    LET full_url == urljoin(base_url, url)
        parsed == urlparse(full_url)
    IN  urlunparse([parsed EXCEPT !.fragment = <<>>])

\* an origin test that takes every URL for one of the crawled site
AnyDomain(url) == url = url

\* `urlparse(url).netloc == self.domain`
_is_same_domain(url) == urlparse(url).netloc = domain

\* a classification by origin alone
LinkTypeByOrigin(url) == IF ~_is_same_domain(url) THEN "external" ELSE "page"

\* a classification that compares the origin before it looks at the extension
LinkTypeOriginFirst(url) ==
    LET last == IF url = <<>> THEN "" ELSE Lower(url[Len(url)])
    IN  IF ~_is_same_domain(url) THEN "external"
        ELSE IF last \in ImageExts THEN "image"
        ELSE IF last = ".css" THEN "css"
        ELSE IF last = ".js" THEN "js"
        ELSE "page"

\* `url_lower = url.lower()`, then the endswith tests in order
_get_link_type(url) ==
    LET last == IF url = <<>> THEN "" ELSE Lower(url[Len(url)])
    IN  IF last \in ImageExts THEN "image"
        ELSE IF last = ".css" THEN "css"
        ELSE IF last = ".js" THEN "js"
        ELSE IF ~_is_same_domain(url) THEN "external"
        ELSE "page"

(***************************************************************************)
(* The site being crawled: what the server at a URL's host and path sends  *)
(* as the page body, given as the raw href/src values of its <a>, <img>,   *)
(* <link> and <script> tags.                                               *)
(***************************************************************************)
Seed == <<SchemeTok, "example.com">>
\* a site of two pages: the home page links to /page1, which links nowhere
SimpleSeed == <<SchemeTok, "simple.test">>
\* a site whose home page links to a page and to an image of another host
ExternalSeed == <<SchemeTok, "ext.test">>
\* a start URL that ends in an image extension
AssetSeed == <<SchemeTok, "example.com", "/logo", ".png">>
StartUrls == {Seed, SimpleSeed, ExternalSeed, AssetSeed}
\* a site whose home page links to /m, a page that holds a link to /ok and the
\* href "http://[", which urljoin rejects with ValueError('Invalid IPv6 URL')
MalformedSeed == <<SchemeTok, "bad.test">>
MalformedPage == <<SchemeTok, "bad.test", "/m">>
MalformedRefs == {<<"http://[">>}

Html(url) ==
    LET p == urlparse(url)
    IN  CASE p.netloc = <<"example.com">> ->
               (CASE p.path = <<>> -> {<<"/a">>, <<"/b">>}
                  [] p.path = <<"/a">> -> {<<"/c">>, <<SchemeTok, "other.org">>}
                  [] p.path = <<"/b">> -> {<<"/c", "#top">>, <<"/logo", ".png">>}
                  [] p.path = <<"/c">> -> {<<SchemeTok, "example.com", "/a">>}
                  [] OTHER -> {})
          [] p.netloc = <<"simple.test">> ->
               (CASE p.path = <<>> -> {<<"/page1">>}
                  [] OTHER -> {})
          [] p.netloc = <<"ext.test">> ->
               (CASE p.path = <<>> -> {<<SchemeTok, "other.org">>,
                                       <<SchemeTok, "other.org", "/logo", ".png">>}
                  [] OTHER -> {})
          [] p.netloc = <<"bad.test">> ->
               (CASE p.path = <<>> -> {<<"/m">>}
                  [] p.path = <<"/m">> -> {<<"/ok">>, <<"http://[">>}
                  [] OTHER -> {})
          [] OTHER -> {}

\* the permission oracle of robots.txt: isAllowed(url)
RobotsDisallow == {<<SchemeTok, "example.com", "/b">>}
isAllowed(url) == url \notin RobotsDisallow

(***************************************************************************)
(* What a request can end in: a response, or an exception of httpx.        *)
(***************************************************************************)
Response(status, elapsed, ctype) ==
    [kind |-> "response", status_code |-> status, elapsed |-> elapsed,
     content_type |-> ctype, text |-> <<>>]
Raised(kind, text) ==
    [kind |-> kind, status_code |-> 0, elapsed |-> 0, content_type |-> "", text |-> text]

TimeoutException == Raised("TimeoutException", <<"timed out">>)
HTTPStatusError == Raised("HTTPStatusError", <<"Client error ", "405">>)
ConnectError == Raised("ConnectError", <<"Connection refused">>)
\* what urljoin raises inside _normalize_url on a reference it cannot parse
ValueError == Raised("ValueError", <<"Invalid IPv6 URL">>)

\* the outcomes the crawl specification draws from
CrawlHeadOutcomes ==
    {Response(200, 2, "text/html"), Response(404, 2, "text/html"),
     TimeoutException, HTTPStatusError}
CrawlGetOutcomes == {Response(200, 2, "text/html")}
CrawlPageOutcomes ==
    {Response(200, 2, "text/html"), Response(200, 2, "text/plain"),
     Response(404, 2, "text/html"), TimeoutException}

(***************************************************************************)
(* LinkResult and the results _check_link builds.                          *)
(***************************************************************************)
LinkResult(source, target, type, status, time, sev, message) ==
    [source_url |-> source, target_url |-> target, link_type |-> type,
     status_code |-> status, response_time |-> time,
     severity |-> sev, error_message |-> message]

SlowResponse == 50

\* the slow-response test as >= instead of >
SeverityOfInclusive(status_code, response_time) ==
    IF status_code >= 400 THEN "error"
    ELSE IF status_code >= 300 \/ response_time >= SlowResponse THEN "warning"
    ELSE "success"

SeverityOf(status_code, response_time) ==
    IF status_code >= 400 THEN "error"
    ELSE IF status_code >= 300 \/ response_time > SlowResponse THEN "warning"
    ELSE "success"

ResponseResult(source_url, target_url, response) ==
    LinkResult(source_url, target_url, _get_link_type(target_url),
               Some(response.status_code), response.elapsed,
               SeverityOf(response.status_code, response.elapsed), None)

\* a timeout reported as a warning
TimeoutResultAsWarning(source_url, target_url) ==
    LinkResult(source_url, target_url, _get_link_type(target_url),
               None, timeout, "warning", Some(<<"Request timeout">>))

TimeoutResult(source_url, target_url) ==
    LinkResult(source_url, target_url, _get_link_type(target_url),
               None, timeout, "error", Some(<<"Request timeout">>))

ExceptionResult(source_url, target_url, e) ==
    LinkResult(source_url, target_url, _get_link_type(target_url),
               None, 0, "error", Some(e.text))

\* the except clauses in the other order: `except Exception` catches the timeout
CheckLinkReturnGenericFirst(source_url, target_url, outcome) ==
    CASE outcome.kind = "response" -> ResponseResult(source_url, target_url, outcome)
      [] OTHER -> ExceptionResult(source_url, target_url, outcome)

\* what the try/except of _check_link makes of the outcome of its last request
CheckLinkReturn(source_url, target_url, outcome) ==
    CASE outcome.kind = "response" -> ResponseResult(source_url, target_url, outcome)
      [] outcome.kind = "TimeoutException" -> TimeoutResult(source_url, target_url)
      [] OTHER -> ExceptionResult(source_url, target_url, outcome)

\* except httpx.HTTPStatusError around client.head
HeadFallsBackToGet(outcome) == outcome.kind = "HTTPStatusError"

\* a result for the failed page that carries no message
PageStatusResultUnmarked(url, response) ==
    LinkResult(url, url, "page", Some(response.status_code), response.elapsed,
               "error", None)

\* the LinkResults _crawl_page itself appends for a page it could not fetch
PageStatusResult(url, response) ==
    LinkResult(url, url, "page", Some(response.status_code), response.elapsed,
               "error", Some(<<"HTTP ", ToString(response.status_code)>>))

PageExceptionResult(url, e) ==
    LinkResult(url, url, "page", None, 0, "error", Some(e.text))

\* _extract_links calls _normalize_url on every raw value with no try around it:
\* one reference that urljoin rejects ends the extraction in its ValueError
ExtractRaises(html) == html \cap MalformedRefs # {}

_extract_links(html, page_url) ==
    {u \in {_normalize_url(raw, page_url) : raw \in html} : u # <<>>}

(***************************************************************************)
(* Helpers on sequences and functions.                                     *)
(***************************************************************************)
Perms(S) ==
    {s \in [1..Cardinality(S) -> S] : \A i, j \in DOMAIN s : s[i] = s[j] => i = j}

Bump(f, x) ==
    IF x \in DOMAIN f THEN [f EXCEPT ![x] = @ + 1] ELSE f @@ (x :> 1)

IsFailure(outcome) ==
    outcome.kind # "response" \/ outcome.status_code >= 400

\* a link check that reports the start URL as the page the link was found on
NewCheckFromSeed(source_url, target_url) ==
    [source_url |-> start_url, target_url |-> target_url, pc |-> "acquire",
     result |-> None, sent |-> <<>>, head_reply |-> None, get_reply |-> None]

\* `self._check_link(url, link)`: a call that has not started
NewCheck(source_url, target_url) ==
    [source_url |-> source_url, target_url |-> target_url, pc |-> "acquire",
     result |-> None, sent |-> <<>>, head_reply |-> None, get_reply |-> None]

(***************************************************************************)
(* The crawler after SiteCrawler(start_url, max_depth, max_concurrent,     *)
(* timeout, respect_robots).                                               *)
(***************************************************************************)
DefaultTimeout == 100

Constructed(timeouts) ==
    /\ start_url \in StartUrls
    /\ max_depth \in -1..MaxDepthBound
    /\ max_concurrent \in 1..MaxConcurrentBound
    /\ timeout \in timeouts
    /\ respect_robots \in BOOLEAN
    /\ domain = urlparse(start_url).netloc
    /\ visited = {}
    /\ results = <<>>
    /\ pages_crawled = 0
    /\ depth_map = <<>>
    /\ semaphore = max_concurrent
    /\ ptasks = <<>>
    /\ awaited = {}
    /\ gets = <<>>
    /\ failures = {}

\* no sampling call, no database, no command around the crawler
NothingOutside ==
    /\ sample = <<>>
    /\ db = <<>>
    /\ cmd = <<>>
    /\ call = <<>>

Init ==
    /\ Constructed({DefaultTimeout})
    /\ queue = <<>>
    /\ pc = "idle"
    /\ ctasks = <<>>
    /\ NothingOutside

(***************************************************************************)
(* crawl()                                                                 *)
(***************************************************************************)
CrawlStart ==
    /\ pc = "idle"
    /\ visited' = {}
    /\ results' = <<>>
    /\ pages_crawled' = 0
    /\ queue' = << <<start_url, 0>> >>
    /\ pc' = "loop"
    /\ UNCHANGED <<config, outside, depth_map, semaphore, awaited, ptasks, ctasks, gets, failures>>

\* a drain that batches every entry it pops
JoinsBatchUnchecked(url, seen) == TRUE

\* `if url not in self.visited`
JoinsBatch(url, seen) == url \notin seen

\* an assignment that gives the depth to every URL recorded so far as well
SetDepthOfAll(dm, url, depth) == [u \in DOMAIN dm \cup {url} |-> depth]

\* `self.depth_map[url] = depth`
SetDepth(dm, url, depth) ==
    IF url \in DOMAIN dm THEN [dm EXCEPT ![url] = depth] ELSE dm @@ (url :> depth)

RECURSIVE Drain(_, _, _, _, _)
\* the inner while loop: pops the head entries of depth d, batching the unvisited
Drain(q, d, batch, seen, dm) ==
    IF q = <<>> \/ q[1][2] # d
    THEN [queue |-> q, current_batch |-> batch, visited |-> seen, depth_map |-> dm]
    ELSE LET url == q[1][1]
             depth == q[1][2]
         IN  IF JoinsBatch(url, seen)
             THEN Drain(Tail(q), d, Append(batch, <<url, depth>>), seen \cup {url},
                        SetDepth(dm, url, depth))
             ELSE Drain(Tail(q), d, batch, seen, dm)

\* one iteration of `while queue`, up to the await of gather
CrawlBatch ==
    /\ pc = "loop"
    /\ queue # <<>>
    /\ LET current_depth == queue[1][2]
           drained == Drain(queue, current_depth, <<>>, visited, depth_map)
           n == Len(ptasks)
           tasks == [k \in 1..Len(drained.current_batch) |->
                        [url |-> drained.current_batch[k][1],
                         depth |-> drained.current_batch[k][2],
                         pc |-> "start", external |-> FALSE, checks |-> 0,
                         reply |-> None]]
       IN  /\ queue' = drained.queue
           /\ visited' = drained.visited
           /\ depth_map' = drained.depth_map
           /\ ptasks' = ptasks \o tasks
           /\ awaited' = (n + 1)..(n + Len(tasks))
    /\ pc' = "gather"
    /\ UNCHANGED <<config, outside, results, pages_crawled, semaphore, ctasks, gets, failures>>

\* a gather that resumes as soon as one task is done
GatherFirstCompleted == \E i \in awaited : ptasks[i].pc = "done"

\* `await asyncio.gather(*tasks, return_exceptions=True)` resumes
GatherSettled == \A i \in awaited : ptasks[i].pc = "done"

CrawlGathered ==
    /\ pc = "gather"
    /\ GatherSettled
    /\ pc' = "loop"
    /\ awaited' = {}
    /\ UNCHANGED <<config, outside, visited, results, pages_crawled, depth_map, semaphore,
                   queue, ptasks, ctasks, gets, failures>>

CrawlReturn ==
    /\ pc = "loop"
    /\ queue = <<>>
    /\ pc' = "returned"
    /\ UNCHANGED <<config, outside, visited, results, pages_crawled, depth_map, semaphore,
                   queue, awaited, ptasks, ctasks, gets, failures>>

(***************************************************************************)
(* _check_link(source_url, target_url)                                     *)
(***************************************************************************)
\* an entry into the link check that does not wait for a free slot
CheckLinkAcquireUnbounded(id) ==
    /\ ctasks[id].pc = "acquire"
    /\ semaphore' = semaphore - 1
    /\ ctasks' = [ctasks EXCEPT ![id].pc = "head", ![id].sent = <<"HEAD">>]
    /\ UNCHANGED <<config, outside, visited, results, pages_crawled, depth_map, queue, pc,
                   awaited, ptasks, gets, failures>>

\* `async with self.semaphore`, then client.head is sent
CheckLinkAcquire(id) ==
    /\ ctasks[id].pc = "acquire"
    /\ semaphore > 0
    /\ semaphore' = semaphore - 1
    /\ ctasks' = [ctasks EXCEPT ![id].pc = "head", ![id].sent = <<"HEAD">>]
    /\ UNCHANGED <<config, outside, visited, results, pages_crawled, depth_map, queue, pc,
                   awaited, ptasks, gets, failures>>

\* a return that keeps the slot of the semaphore
CheckLinkDoneHolding(id, reply, result, head, get) ==
    /\ semaphore' = semaphore
    /\ ctasks' = [ctasks EXCEPT ![id].pc = "done", ![id].result = Some(result),
                                ![id].head_reply = head, ![id].get_reply = get]
    /\ failures' = IF IsFailure(reply)
                   THEN failures \cup {<<ctasks[id].source_url, ctasks[id].target_url>>}
                   ELSE failures

\* the call returns `result`, leaving `async with self.semaphore`
CheckLinkDone(id, reply, result, head, get) ==
    /\ semaphore' = semaphore + 1
    /\ ctasks' = [ctasks EXCEPT ![id].pc = "done", ![id].result = Some(result),
                                ![id].head_reply = head, ![id].get_reply = get]
    /\ failures' = IF IsFailure(reply)
                   THEN failures \cup {<<ctasks[id].source_url, ctasks[id].target_url>>}
                   ELSE failures

\* client.head settles with `reply`
CheckLinkHead(id, reply) ==
    /\ ctasks[id].pc = "head"
    /\ IF HeadFallsBackToGet(reply)
       THEN /\ ctasks' = [ctasks EXCEPT ![id].pc = "get",
                                        ![id].sent = Append(@, "GET"),
                                        ![id].head_reply = Some(reply)]
            /\ UNCHANGED <<semaphore, failures>>
       ELSE CheckLinkDone(id, reply,
                CheckLinkReturn(ctasks[id].source_url, ctasks[id].target_url, reply),
                Some(reply), None)
    /\ UNCHANGED <<config, outside, visited, results, pages_crawled, depth_map, queue, pc,
                   awaited, ptasks, gets>>

\* client.get, sent after the HEAD raised HTTPStatusError, settles with `reply`
CheckLinkGet(id, reply) ==
    /\ ctasks[id].pc = "get"
    /\ CheckLinkDone(id, reply,
            CheckLinkReturn(ctasks[id].source_url, ctasks[id].target_url, reply),
            ctasks[id].head_reply, Some(reply))
    /\ UNCHANGED <<config, outside, visited, results, pages_crawled, depth_map, queue, pc,
                   awaited, ptasks, gets>>

(***************************************************************************)
(* _crawl_page(url, depth, queue)                                          *)
(***************************************************************************)
\* the task starts: an external URL is only checked, a page is fetched
CrawlPageStart(i) ==
    /\ ptasks[i].pc = "start"
    /\ IF ~_is_same_domain(ptasks[i].url)
       THEN /\ ptasks' = [ptasks EXCEPT ![i].pc = "checking", ![i].external = TRUE,
                                        ![i].checks = 1]
            /\ ctasks' = ctasks @@ (<<i, 1>> :> NewCheck(ptasks[i].url, ptasks[i].url))
            /\ UNCHANGED gets
       ELSE /\ ptasks' = [ptasks EXCEPT ![i].pc = "get"]
            /\ gets' = Bump(gets, ptasks[i].url)
            /\ UNCHANGED ctasks
    /\ UNCHANGED <<config, outside, visited, results, pages_crawled, depth_map, semaphore,
                   queue, pc, awaited, failures>>

\* the enqueue test without the severity condition
ShouldEnqueueAnySeverity(result, depth) ==
    /\ depth < max_depth
    /\ result.link_type = "page"
    /\ result.target_url \notin visited

\* an enqueue rule that looks at the depth and at visited only
ShouldEnqueueUnvisited(result, depth) ==
    /\ depth < max_depth
    /\ result.target_url \notin visited

\* an enqueue rule that stops one level short of max_depth
ShouldEnqueueBelowCeiling(result, depth) ==
    /\ depth + 1 < max_depth
    /\ result.link_type = "page"
    /\ result.severity # "error"
    /\ result.target_url \notin visited

\* `depth < self.max_depth and result.link_type == "page" and
\*  result.severity != "error" and result.target_url not in self.visited`
ShouldEnqueue(result, depth) ==
    /\ depth < max_depth
    /\ result.link_type = "page"
    /\ result.severity # "error"
    /\ result.target_url \notin visited

\* a content-type test that takes every response for HTML
IsHtmlAlways(reply) == reply.kind = "response"

\* `'text/html' in response.headers.get('content-type', '')`
IsHtml(reply) == reply.content_type = "text/html"

RECURSIVE Returned(_, _, _)
\* the LinkResults among the gathered results of page task i, in gather order
Returned(i, k, n) ==
    IF k > n THEN <<>>
    ELSE (IF ctasks[<<i, k>>].pc = "done" THEN ctasks[<<i, k>>].result ELSE <<>>)
         \o Returned(i, k + 1, n)

\* an entry that keeps the depth of the page the link was found on
QueueEntrySameDepth(target_url, depth) == <<target_url, depth>>

\* `(result.target_url, depth + 1)`
QueueEntry(target_url, depth) == <<target_url, depth + 1>>

RECURSIVE Enqueued(_, _)
\* the frontier entries the loop over link_results appends
Enqueued(link_results, depth) ==
    IF link_results = <<>> THEN <<>>
    ELSE (IF ShouldEnqueue(Head(link_results), depth)
          THEN <<QueueEntry(Head(link_results).target_url, depth)>> ELSE <<>>)
         \o Enqueued(Tail(link_results), depth)

\* client.get(url) settles with `reply`; on an HTML page the link checks are
\* created in the iteration order of the set `links`
CrawlPageFetched(i, reply) ==
    /\ ptasks[i].pc = "get"
    /\ LET url == ptasks[i].url
           links == _extract_links(Html(url), url)
       IN  IF reply.kind # "response"
           THEN /\ results' = Append(results, PageExceptionResult(url, reply))
                /\ ptasks' = [ptasks EXCEPT ![i].pc = "done", ![i].reply = Some(reply)]
                /\ failures' = failures \cup {<<url, url>>}
                /\ UNCHANGED <<pages_crawled, ctasks>>
           ELSE IF reply.status_code >= 400
           THEN /\ results' = Append(results, PageStatusResult(url, reply))
                /\ ptasks' = [ptasks EXCEPT ![i].pc = "done", ![i].reply = Some(reply)]
                /\ failures' = failures \cup {<<url, url>>}
                /\ UNCHANGED <<pages_crawled, ctasks>>
           ELSE IF IsHtml(reply) /\ ExtractRaises(Html(url))
           THEN /\ pages_crawled' = pages_crawled + 1
                /\ results' = Append(results, PageExceptionResult(url, ValueError))
                /\ ptasks' = [ptasks EXCEPT ![i].pc = "done", ![i].reply = Some(reply)]
                /\ failures' = failures \cup {<<url, url>>}
                /\ UNCHANGED ctasks
           ELSE /\ pages_crawled' = pages_crawled + 1
                /\ UNCHANGED <<results, failures>>
                /\ IF IsHtml(reply) /\ links # {}
                   THEN \E order \in Perms(links) :
                          /\ ptasks' = [ptasks EXCEPT ![i].pc = "checking",
                                                      ![i].checks = Len(order),
                                                      ![i].reply = Some(reply)]
                          /\ ctasks' = ctasks @@
                                 [id \in {<<i, k>> : k \in 1..Len(order)} |->
                                     NewCheck(url, order[id[2]])]
                   ELSE /\ ptasks' = [ptasks EXCEPT ![i].pc = "done",
                                                    ![i].reply = Some(reply)]
                        /\ UNCHANGED ctasks
    /\ UNCHANGED <<config, outside, visited, depth_map, semaphore, queue, pc, awaited, gets>>

\* the gather of the link checks resumes: the loop over link_results
CrawlPageChecked(i) ==
    /\ ptasks[i].pc = "checking"
    /\ \A k \in 1..ptasks[i].checks : ctasks[<<i, k>>].pc \in {"done", "raised"}
    /\ LET link_results == Returned(i, 1, ptasks[i].checks)
       IN  /\ results' = results \o link_results
           /\ queue' = IF ptasks[i].external THEN queue
                        ELSE queue \o Enqueued(link_results, ptasks[i].depth)
    /\ ptasks' = [ptasks EXCEPT ![i].pc = "done"]
    /\ ctasks' = [id \in {x \in DOMAIN ctasks : x[1] # i} |-> ctasks[id]]
    /\ UNCHANGED <<config, outside, visited, pages_crawled, depth_map, semaphore, pc, awaited,
                   gets, failures>>

(***************************************************************************)
(* The crawl: crawl() and the tasks it creates.                            *)
(***************************************************************************)
Next ==
    \/ CrawlStart
    \/ CrawlBatch
    \/ CrawlGathered
    \/ CrawlReturn
    \/ \E i \in DOMAIN ptasks : CrawlPageStart(i)
    \/ \E i \in DOMAIN ptasks : \E reply \in CrawlPageOutcomes : CrawlPageFetched(i, reply)
    \/ \E i \in DOMAIN ptasks : CrawlPageChecked(i)
    \/ \E id \in DOMAIN ctasks : CheckLinkAcquire(id)
    \/ \E id \in DOMAIN ctasks : \E reply \in CrawlHeadOutcomes : CheckLinkHead(id, reply)
    \/ \E id \in DOMAIN ctasks : \E reply \in CrawlGetOutcomes : CheckLinkGet(id, reply)

Spec == Init /\ [][Next]_vars

\* The crawl on an event loop that runs every task that is ready, with every
\* request settling: a step of the crawl that stays possible is taken.
\* crawl() never reads respect_robots: the flag is left at its default here.
InitFair ==
    /\ Init
    /\ respect_robots

SpecFair == InitFair /\ [][Next]_vars /\ WF_vars(Next)

\* the same crawl with no assumption on its scheduling
SpecCrawl == InitFair /\ [][Next]_vars

(***************************************************************************)
(* The crawl as a task its caller may cancel. crawl() awaits only the      *)
(* gather of its batch: the CancelledError is thrown into it there, gather *)
(* cancels the page tasks that are not done and they cancel their link     *)
(* checks; `except Exception` catches no CancelledError and crawl() has no *)
(* handler, so the error leaves crawl(). `async with` frees the slots.     *)
(***************************************************************************)
InitCancel ==
    /\ Init
    /\ start_url \in {SimpleSeed, ExternalSeed}

Cancel ==
    /\ pc = "gather"
    /\ pc' = "cancelled"
    /\ awaited' = {}
    /\ ptasks' = [i \in DOMAIN ptasks |->
                     IF ptasks[i].pc = "done" THEN ptasks[i]
                     ELSE [ptasks[i] EXCEPT !.pc = "cancelled"]]
    /\ ctasks' = [id \in DOMAIN ctasks |->
                     IF ctasks[id].pc = "done" THEN ctasks[id]
                     ELSE [ctasks[id] EXCEPT !.pc = "cancelled"]]
    /\ semaphore' = semaphore
                    + Cardinality({id \in DOMAIN ctasks : ctasks[id].pc \in {"head", "get"}})
    /\ UNCHANGED <<config, outside, visited, results, pages_crawled, depth_map, queue,
                   gets, failures>>

NextCancel == Next \/ Cancel

SpecCancel == InitCancel /\ [][NextCancel]_vars

(***************************************************************************)
(* The crawl of example.com started at https://example.com/a#top: a start  *)
(* URL given with a fragment. The page /a links to /c, which links back to *)
(* https://example.com/a.                                                  *)
(***************************************************************************)
FragmentSeed == <<SchemeTok, "example.com", "/a", "#top">>

InitFragment ==
    /\ start_url = FragmentSeed
    /\ max_depth \in 0..MaxDepthBound
    /\ max_concurrent \in 1..MaxConcurrentBound
    /\ timeout = DefaultTimeout
    /\ respect_robots \in BOOLEAN
    /\ domain = urlparse(start_url).netloc
    /\ visited = {}
    /\ results = <<>>
    /\ pages_crawled = 0
    /\ depth_map = <<>>
    /\ semaphore = max_concurrent
    /\ ptasks = <<>>
    /\ awaited = {}
    /\ gets = <<>>
    /\ failures = {}
    /\ queue = <<>>
    /\ pc = "idle"
    /\ ctasks = <<>>
    /\ NothingOutside

SpecFragment == InitFragment /\ [][Next]_vars

(***************************************************************************)
(* The crawl of bad.test, whose page /m holds a malformed link.            *)
(***************************************************************************)
InitMalformed ==
    /\ start_url = MalformedSeed
    /\ max_depth \in 0..MaxDepthBound
    /\ max_concurrent \in 1..MaxConcurrentBound
    /\ timeout = DefaultTimeout
    /\ respect_robots \in BOOLEAN
    /\ domain = urlparse(start_url).netloc
    /\ visited = {}
    /\ results = <<>>
    /\ pages_crawled = 0
    /\ depth_map = <<>>
    /\ semaphore = max_concurrent
    /\ ptasks = <<>>
    /\ awaited = {}
    /\ gets = <<>>
    /\ failures = {}
    /\ queue = <<>>
    /\ pc = "idle"
    /\ ctasks = <<>>
    /\ NothingOutside

SpecMalformed == InitMalformed /\ [][Next]_vars

(***************************************************************************)
(* crawl() called a second time on the same SiteCrawler, after the first   *)
(* call returned. `call` records the second invocation.                    *)
(***************************************************************************)
InitAgain ==
    /\ Init
    /\ start_url = SimpleSeed

\* the first lines of crawl(): visited and results are cleared, pages_crawled is
\* set to 0 and the queue is seeded; depth_map is not assigned to
CrawlAgain ==
    /\ pc = "returned"
    /\ call = <<>>
    /\ call' = [op |-> "crawl", invocation |-> 2]
    /\ visited' = {}
    /\ results' = <<>>
    /\ pages_crawled' = 0
    /\ queue' = << <<start_url, 0>> >>
    /\ pc' = "loop"
    /\ UNCHANGED <<config, sample, db, cmd, depth_map, semaphore, awaited, ptasks, ctasks,
                   gets, failures>>

NextAgain == Next \/ CrawlAgain

SpecAgain == InitAgain /\ [][NextAgain]_vars

(***************************************************************************)
(* One _check_link(source_url, target_url) call on a constructed crawler,  *)
(* against every kind of reply.                                            *)
(***************************************************************************)
LinkStatuses == {200, 204, 299, 300, 301, 399, 400, 404, 405, 500}
LinkElapsed == {2, 50, 51, 60}
LinkTimeouts == {30, DefaultTimeout}
LinkTargets ==
    {<<SchemeTok, "example.com", "/a">>, <<SchemeTok, "example.com", "/logo", ".png">>,
     <<SchemeTok, "other.org">>}
LinkOutcomes ==
    {Response(st, el, "text/html") : st \in LinkStatuses, el \in LinkElapsed}
    \cup {TimeoutException, HTTPStatusError, ConnectError}

InitLink ==
    /\ Constructed(LinkTimeouts)
    /\ queue = <<>>
    /\ pc = "direct"
    /\ \E target_url \in LinkTargets :
          ctasks = (<<0, 1>> :> NewCheck(start_url, target_url))
    /\ NothingOutside

NextLink ==
    \/ \E id \in DOMAIN ctasks : CheckLinkAcquire(id)
    \/ \E id \in DOMAIN ctasks : \E reply \in LinkOutcomes : CheckLinkHead(id, reply)
    \/ \E id \in DOMAIN ctasks : \E reply \in LinkOutcomes : CheckLinkGet(id, reply)

SpecLink == InitLink /\ [][NextLink]_vars

(***************************************************************************)
(* get_pages_for_seo_analysis(): the URLs of the list it returns; the list *)
(* holds each once, in the iteration order of the set visited.             *)
(***************************************************************************)
get_pages_for_seo_analysis ==
    {url \in visited : _get_link_type(url) = "page" /\ _is_same_domain(url)}

(***************************************************************************)
(* select_stratified_sample(all_pages, homepage, depth_map, sample_rate)   *)
(* of performance.py. A rate is a number of RateUnit-ths; the list of      *)
(* pages has no duplicates, as the caller builds it from the set visited.  *)
(***************************************************************************)
MaxPages == 3
RateUnit == 4
MissingDepth == 999

SampleUrls ==
    {Seed, <<SchemeTok, "example.com", "/a">>, <<SchemeTok, "example.com", "/b">>,
     <<SchemeTok, "example.com", "/c">>}
SampleDepths == {0, 1, 2}
SampleRates == 0..RateUnit

Range(s) == {s[k] : k \in DOMAIN s}

Max(a, b) == IF a >= b THEN a ELSE b

\* the lists of at most MaxPages distinct URLs
SamplePageLists ==
    {s \in UNION {[1..n -> SampleUrls] : n \in 0..MaxPages} :
        \A i, j \in DOMAIN s : s[i] = s[j] => i = j}

SampleDepthMaps == UNION {[D -> SampleDepths] : D \in SUBSET SampleUrls}

\* `depth_map.get(url, 999)`
DepthGet(dm, url) == IF url \in DOMAIN dm THEN dm[url] ELSE MissingDepth

\* a first stage that selects the homepage only
MandatoryHomepageOnly(all_pages, homepage, dm) ==
    IF homepage \in Range(all_pages) THEN {homepage} ELSE {}

\* `selected` after the homepage test and the loop over the depth-1 pages
Mandatory(all_pages, homepage, dm) ==
    (IF homepage \in Range(all_pages) THEN {homepage} ELSE {})
    \cup {all_pages[k] : k \in {j \in DOMAIN all_pages : DepthGet(dm, all_pages[j]) = 1}}

\* a target that ignores the rate
TargetCountOfSelected(all_pages, selected, rate) == Cardinality(selected)

\* `max(len(selected), int(len(all_pages) * sample_rate))`
TargetCount(all_pages, selected, rate) ==
    Max(Cardinality(selected), (Len(all_pages) * rate) \div RateUnit)

\* `random.sample(remaining_pages, remaining_needed)`: the values at any
\* remaining_needed distinct positions
RandomSamples(remaining_pages, remaining_needed) ==
    {{remaining_pages[j] : j \in idx} :
        idx \in {x \in SUBSET DOMAIN remaining_pages : Cardinality(x) = remaining_needed}}

\* the sets `selected` can be when the function returns
select_stratified_sample(all_pages, homepage, dm, rate) ==
    LET selected == Mandatory(all_pages, homepage, dm)
        target_count == TargetCount(all_pages, selected, rate)
        remaining_needed == target_count - Cardinality(selected)
        remaining_pages == SelectSeq(all_pages, LAMBDA url : url \notin selected)
    IN  IF remaining_needed > 0
        THEN IF Len(remaining_pages) <= remaining_needed
             THEN {selected \cup Range(remaining_pages)}
             ELSE {selected \cup sampled :
                      sampled \in RandomSamples(remaining_pages, remaining_needed)}
        ELSE {selected}

\* a call of the function is about to run; the crawler plays no part
InitSample ==
    /\ Constructed({DefaultTimeout})
    /\ start_url = Seed /\ max_depth = 0 /\ max_concurrent = 1 /\ respect_robots
    /\ queue = <<>>
    /\ pc = "idle"
    /\ ctasks = <<>>
    /\ db = <<>>
    /\ cmd = <<>>
    /\ call = <<>>
    /\ \E all_pages \in SamplePageLists, dm \in SampleDepthMaps, rate \in SampleRates :
          sample = [all_pages |-> all_pages, homepage |-> Seed, depth_map |-> dm,
                    sample_rate |-> rate, pc |-> "called", result |-> <<>>]

\* the call runs and returns `list(selected)`, in any order
SelectStratifiedSample ==
    /\ sample.pc = "called"
    /\ \E selected \in select_stratified_sample(sample.all_pages, sample.homepage,
                                                 sample.depth_map, sample.sample_rate) :
          \E order \in Perms(selected) :
              sample' = [sample EXCEPT !.pc = "returned", !.result = order]
    /\ UNCHANGED <<config, visited, results, pages_crawled, depth_map, semaphore,
                   queue, pc, awaited, ptasks, ctasks, gets, failures, db, cmd, call>>

NextSample == SelectStratifiedSample

SpecSample == InitSample /\ [][NextSample]_vars

(***************************************************************************)
(* The callers of crawl(): the CLI command _crawl_async and the web        *)
(* background task run_crawl, and the crawls row they keep in the          *)
(* database. db.writes is history: the statuses complete_crawl has         *)
(* written; cmd.raised names the call of the try block that raised. A      *)
(* database call either returns or raises sqlite's error.                  *)
(***************************************************************************)
crawler ==
    <<config, visited, results, pages_crawled, depth_map, semaphore, queue, pc,
      awaited, ptasks, ctasks, gets, failures>>

CommandKinds == {"cli", "web"}
CommandUrls == {SimpleSeed, ExternalSeed}
DbOutcomes == {"ok", "OperationalError"}
ReportOutcomes == {"ok", "ValueError"}

\* `INSERT INTO crawls (start_url, started_at, max_depth, status) VALUES (.., 'running')`
create_crawl ==
    [status |-> "running", total_pages |-> 0, total_links |-> 0,
     rows |-> <<>>, writes |-> <<>>]

\* an update that stores the two totals in each other's column
CompleteCrawlSwapped(row, total_pages, total_links, status) ==
    [row EXCEPT !.status = status, !.total_pages = total_links,
                !.total_links = total_pages, !.writes = Append(@, status)]

\* `UPDATE crawls SET completed_at = ?, total_pages = ?, total_links_checked = ?,
\*  status = ? WHERE id = ?`
complete_crawl(row, total_pages, total_links, status) ==
    [row EXCEPT !.status = status, !.total_pages = total_pages,
                !.total_links = total_links, !.writes = Append(@, status)]

\* `INSERT INTO link_results (...) VALUES (...)`
save_link_result(row, result) == [row EXCEPT !.rows = Append(@, result)]

\* the crawl record exists and the caller is about to enter its try block; the
\* web task constructs the crawler with the default respect_robots
InitCommand ==
    /\ Constructed({DefaultTimeout})
    /\ start_url \in CommandUrls
    /\ queue = <<>>
    /\ pc = "idle"
    /\ ctasks = <<>>
    /\ sample = <<>>
    /\ call = <<>>
    /\ db = create_crawl
    /\ \E kind \in CommandKinds :
          /\ kind = "web" => respect_robots
          /\ cmd = [kind |-> kind, pc |-> "try", saved |-> 0, raised |-> ""]

\* one turn of `for result in results: await db.save_link_result(crawl_id, result)`
SaveLinkResult(outcome) ==
    /\ cmd.pc = "try"
    /\ pc = "returned"
    /\ cmd.saved < Len(results)
    /\ IF outcome = "ok"
       THEN /\ db' = save_link_result(db, results[cmd.saved + 1])
            /\ cmd' = [cmd EXCEPT !.saved = @ + 1]
       ELSE /\ cmd' = [cmd EXCEPT !.pc = "except", !.raised = "save_link_result"]
            /\ UNCHANGED db
    /\ UNCHANGED <<crawler, sample, call>>

\* `await db.complete_crawl(crawl_id, total_pages=crawler.pages_crawled,
\*  total_links=len(results))`; the web task ends here, the CLI goes on to the report
CompleteCrawl(outcome) ==
    /\ cmd.pc = "try"
    /\ pc = "returned"
    /\ cmd.saved = Len(results)
    /\ IF outcome = "ok"
       THEN /\ db' = complete_crawl(db, pages_crawled, Len(results), "completed")
            /\ cmd' = [cmd EXCEPT !.pc = IF cmd.kind = "cli" THEN "report" ELSE "done"]
       ELSE /\ cmd' = [cmd EXCEPT !.pc = "except", !.raised = "complete_crawl"]
            /\ UNCHANGED db
    /\ UNCHANGED <<crawler, sample, call>>

\* `report = await generator.generate(config.output_format)` and the output of the
\* report, inside the try block of the CLI
GenerateReport(outcome) ==
    /\ cmd.pc = "report"
    /\ cmd' = IF outcome = "ok" THEN [cmd EXCEPT !.pc = "done"]
               ELSE [cmd EXCEPT !.pc = "except", !.raised = "generate"]
    /\ UNCHANGED <<crawler, sample, call, db>>

\* `except Exception: await db.complete_crawl(crawl_id, total_pages=0,
\*  total_links=0, status="failed")`; if the call raises, the exception leaves the
\* caller
MarkFailed(outcome) ==
    /\ cmd.pc = "except"
    /\ IF outcome = "ok"
       THEN /\ db' = complete_crawl(db, 0, 0, "failed")
            /\ cmd' = [cmd EXCEPT !.pc = "exit"]
       ELSE /\ cmd' = [cmd EXCEPT !.pc = "raised"]
            /\ UNCHANGED db
    /\ UNCHANGED <<crawler, sample, call>>

NextCommand ==
    \/ Next
    \/ \E outcome \in DbOutcomes : SaveLinkResult(outcome)
    \/ \E outcome \in DbOutcomes : CompleteCrawl(outcome)
    \/ \E outcome \in ReportOutcomes : GenerateReport(outcome)
    \/ \E outcome \in DbOutcomes : MarkFailed(outcome)

SpecCommand == InitCommand /\ [][NextCommand]_vars

(***************************************************************************)
(* Calls of the crawler's pure methods on a crawler of https://example.com *)
(* that is not crawling: _normalize_url(url, base_url) applied once and    *)
(* then to its own result, and _get_link_type(url).                        *)
(***************************************************************************)
IdleCrawler ==
    /\ Constructed({DefaultTimeout})
    /\ start_url = Seed /\ max_depth = 0 /\ max_concurrent = 1 /\ respect_robots
    /\ queue = <<>>
    /\ pc = "idle"
    /\ ctasks = <<>>
    /\ sample = <<>>
    /\ db = <<>>
    /\ cmd = <<>>

\* the references: nothing, a relative path, absolute paths, absolute URLs of
\* this and of another host, each with or without a query and a fragment
NormalizeRefs ==
    {prefix \o query \o fragment :
        prefix \in {<<>>, <<"page.html">>, <<"/about">>, <<"/test">>, <<"/a", ".png">>,
                    <<SchemeTok, "example.com">>, <<SchemeTok, "example.com", "/test">>,
                    <<SchemeTok, "other.org", "/a">>},
        query \in {<<>>, <<"?v=1">>},
        fragment \in {<<>>, <<"#top">>, <<"#anchor">>}}

\* the bases: base_domain (the default) and pages the reference may be found on
NormalizeBases ==
    {base_domain, Seed \o <<"/dir", "/page">>, Seed \o <<"/a", "?v=1">>,
     Seed \o <<"/a", "#top">>, <<SchemeTok, "other.org", "/x", ".png">>}

InitNormalize ==
    /\ IdleCrawler
    /\ \E url \in NormalizeRefs, base_url \in NormalizeBases :
          call = [op |-> "_normalize_url", url |-> url, base_url |-> base_url,
                  pc |-> "called", result |-> <<>>, again |-> <<>>]

\* `self._normalize_url(url, base_url)` returns
NormalizeUrl ==
    /\ call.pc = "called"
    /\ call' = [call EXCEPT !.pc = "returned",
                            !.result = _normalize_url(call.url, call.base_url)]
    /\ UNCHANGED <<crawler, sample, db, cmd>>

\* `self._normalize_url(normalized, base_url)` on the value just returned
NormalizeAgain ==
    /\ call.pc = "returned"
    /\ call' = [call EXCEPT !.pc = "again",
                            !.again = _normalize_url(call.result, call.base_url)]
    /\ UNCHANGED <<crawler, sample, db, cmd>>

NextNormalize == NormalizeUrl \/ NormalizeAgain

SpecNormalize == InitNormalize /\ [][NextNormalize]_vars

\* the URLs classified: of this host and of another, ending in a path, in each
\* extension in lower or upper case, or in a query after the extension; the
\* query is ?v=1, ?v=1.css or ?v=1.js
ClassifyUrls ==
    {<<SchemeTok, host>> \o path \o ext \o query :
        host \in {"example.com", "other.org"},
        path \in {<<>>, <<"/a">>},
        ext \in {<<>>} \cup {<<e>> : e \in ExtTokens},
        query \in {<<>>, <<"?v=1">>, <<"?v=1", ".css">>, <<"?v=1", ".js">>}}

InitClassify ==
    /\ IdleCrawler
    /\ \E url \in ClassifyUrls :
          call = [op |-> "_get_link_type", url |-> url, pc |-> "called", result |-> ""]

\* `self._get_link_type(url)` returns
GetLinkType ==
    /\ call.pc = "called"
    /\ call' = [call EXCEPT !.pc = "returned", !.result = _get_link_type(call.url)]
    /\ UNCHANGED <<crawler, sample, db, cmd>>

NextClassify == GetLinkType

SpecClassify == InitClassify /\ [][NextClassify]_vars

(***************************************************************************)
(* Config.merge_with_args and its keyword arguments. A field or an         *)
(* argument holds None or Some(value); kwargs is a function from the names *)
(* passed to what was passed.                                              *)
(***************************************************************************)
ConfigFields ==
    {"url", "depth", "max_concurrent", "timeout", "respect_robots", "output_format",
     "output_path"}

\* Config(): the defaults of the dataclass
DefaultConfig ==
    [url |-> None, depth |-> Some(2), max_concurrent |-> Some(10),
     timeout |-> Some(DefaultTimeout), respect_robots |-> Some(TRUE),
     output_format |-> Some("terminal"), output_path |-> None]

\* the configuration file of test_merge_config_with_cli_args, and one that sets
\* every field
YamlConfig ==
    [DefaultConfig EXCEPT !.url = Some(Seed), !.output_format = Some("html")]
FullConfig ==
    [url |-> Some(SimpleSeed), depth |-> Some(3), max_concurrent |-> Some(5),
     timeout |-> Some(150), respect_robots |-> Some(FALSE),
     output_format |-> Some("json"), output_path |-> Some("report.json")]

\* the value an argument has when the command line gives it
ArgValue(key) ==
    CASE key = "url" -> Some(ExternalSeed)
      [] key = "depth" -> Some(5)
      [] key = "max_concurrent" -> Some(20)
      [] key = "timeout" -> Some(30)
      [] key = "respect_robots" -> Some(FALSE)
      [] key = "output_format" -> Some("json")
      [] key = "output_path" -> Some("out.json")

\* each name is not passed, passed as None, or passed with a value
MergeArgs ==
    {[key \in {k \in ConfigFields : choice[k] # "absent"} |->
         IF choice[key] = "none" THEN None ELSE ArgValue(key)] :
       choice \in [ConfigFields -> {"absent", "none", "value"}]}

\* a merge in which every argument passed overrides, None included
MergeOverridesAll(self, kwargs) ==
    [self |-> self,
     result |-> [key \in ConfigFields |->
                    IF key \in DOMAIN kwargs THEN kwargs[key] ELSE self[key]]]

\* `merged` starts as the fields of self; `if value is not None: merged[key] =
\* value`; Config(**merged) is returned and self is not assigned to
merge_with_args(self, kwargs) ==
    [self |-> self,
     result |-> [key \in ConfigFields |->
                    IF key \in DOMAIN kwargs /\ kwargs[key] # None
                    THEN kwargs[key] ELSE self[key]]]

InitMerge ==
    /\ IdleCrawler
    /\ \E self \in {DefaultConfig, YamlConfig, FullConfig} : \E kwargs \in MergeArgs :
          call = [op |-> "merge_with_args", self |-> self, kwargs |-> kwargs,
                  pc |-> "called", original |-> self, result |-> <<>>]

MergeWithArgs ==
    /\ call.pc = "called"
    /\ LET merged == merge_with_args(call.self, call.kwargs)
       IN  call' = [call EXCEPT !.pc = "returned", !.self = merged.self,
                                !.result = merged.result]
    /\ UNCHANGED <<crawler, sample, db, cmd>>

NextMerge == MergeWithArgs

SpecMerge == InitMerge /\ [][NextMerge]_vars

(***************************************************************************)
(* Properties of the crawl (Spec).                                         *)
(***************************************************************************)
PageA == <<SchemeTok, "example.com", "/a">>
PageB == <<SchemeTok, "example.com", "/b">>
PageC == <<SchemeTok, "example.com", "/c">>

\* the outbound HTTP requests in flight: page GETs and the HEAD/GET of link checks
InFlight ==
    Cardinality({i \in DOMAIN ptasks : ptasks[i].pc = "get"})
    + Cardinality({id \in DOMAIN ctasks : ctasks[id].pc \in {"head", "get"}})

HasResult(source_url, target_url, severities) ==
    \E k \in DOMAIN results :
        /\ results[k].source_url = source_url
        /\ results[k].target_url = target_url
        /\ results[k].severity \in severities

\* C1 (depth barrier): while the page GET of a task of depth d >= 1 is in flight,
\* every _crawl_page task of depth d-1 has finished and none of the _check_link
\* calls it fanned out is still alive.
DepthBarrier ==
    \A i, j \in DOMAIN ptasks :
        (ptasks[i].pc = "get" /\ ptasks[i].depth >= 1
            /\ ptasks[j].depth = ptasks[i].depth - 1)
        => /\ ptasks[j].pc = "done"
           /\ \A id \in DOMAIN ctasks : id[1] # j

\* a page of depth 2 is being fetched, two layers having been processed before it
DepthBarrierWitness ==
    \E i \in DOMAIN ptasks : ptasks[i].pc = "get" /\ ptasks[i].depth = 2

\* C2 (fetch-once): no URL has had more than one page GET issued for it.
FetchOnce == \A u \in DOMAIN gets : gets[u] <= 1

\* the crawl is over: /c, linked without error by both pages of layer 1, was
\* fetched, and its link back to /a (a cycle) was checked without error
FetchOnceWitness ==
    /\ pc = "returned"
    /\ PageC \in DOMAIN gets
    /\ HasResult(PageA, PageC, {"success", "warning"})
    /\ HasResult(PageB, PageC, {"success", "warning"})
    /\ HasResult(PageC, PageA, {"success", "warning"})

\* C3 (depth ceiling), as claimed for every max_depth the constructor accepts: no
\* page GET is issued for a URL whose depth in depth_map exceeds max_depth.
DepthCeiling == \A u \in DOMAIN gets : depth_map[u] <= max_depth

\* C4 (global request bound), as claimed: at most max_concurrent outbound requests,
\* page GETs included, are in flight at any moment.
GlobalRequestBound == InFlight <= max_concurrent

\* C5 (failure locality): when crawl() has returned, every task it created has run
\* to its end, nothing is left on the frontier or in flight, and every request that
\* timed out, raised or was answered with a status >= 400 is in the results as an
\* error-severity LinkResult of its edge.
FailureLocality ==
    pc = "returned" =>
        /\ \A f \in failures : HasResult(f[1], f[2], {"error"})
        /\ \A i \in DOMAIN ptasks : ptasks[i].pc = "done"
        /\ \A u \in visited : u \in DOMAIN gets
        /\ queue = <<>>
        /\ DOMAIN ctasks = {}

\* the crawl returned after a page fetch and a link check of layer 1 failed, and a
\* page of layer 2 was still fetched
FailureLocalityWitness ==
    /\ pc = "returned"
    /\ \E f \in failures : f[1] = f[2] /\ depth_map[f[1]] = 1
    /\ \E f \in failures : f[1] # f[2] /\ depth_map[f[1]] = 1
    /\ \E i \in DOMAIN ptasks : ptasks[i].depth = 2 /\ ptasks[i].pc = "done"

\* the entries C6 says a page task appends when its link checks are gathered
EnqueueExpected(i) ==
    IF ptasks[i].depth < max_depth
    THEN {<<ctasks[id].result[1].target_url, ptasks[i].depth + 1>> :
            id \in {x \in DOMAIN ctasks :
                      /\ x[1] = i
                      /\ ctasks[x].pc = "done"
                      /\ ctasks[x].result[1].link_type = "page"
                      /\ _is_same_domain(ctasks[x].result[1].target_url)
                      /\ ctasks[x].result[1].severity # "error"
                      /\ ctasks[x].result[1].target_url \notin visited}}
    ELSE {}

EnqueueStep ==
    \/ queue' = queue
    \/ \E k \in 1..Len(queue) : queue' = SubSeq(queue, k + 1, Len(queue))
    \/ pc = "idle" /\ queue' = << <<start_url, 0>> >>
    \/ \E i \in DOMAIN ptasks :
          /\ ptasks[i].pc = "checking"
          /\ ~ptasks[i].external
          /\ ptasks'[i].pc = "done"
          /\ Len(queue') = Len(queue) + Cardinality(EnqueueExpected(i))
          /\ SubSeq(queue', 1, Len(queue)) = queue
          /\ {queue'[k] : k \in (Len(queue) + 1)..Len(queue')} = EnqueueExpected(i)

\* C6 (enqueue rule): the frontier only grows in the step in which a page task of
\* depth d loops over its gathered link checks, and then by exactly one entry
\* (target, d+1) for each result that is a same-origin 'page', not an error, with a
\* target not in visited, and by none unless d < max_depth; every other step leaves
\* the frontier, pops entries from its head, or seeds it.
EnqueueRule == [][EnqueueStep]_vars

\* the frontier holds an entry of depth 2 while a checked page link that was an
\* error is in the results
EnqueueRuleWitness ==
    /\ \E k \in DOMAIN queue : queue[k][2] = 2
    /\ \E k \in DOMAIN results :
          results[k].link_type = "page" /\ results[k].severity = "error"
              /\ results[k].source_url # results[k].target_url

\* C10 (robots permission), as claimed: with respect_robots set, no URL the oracle
\* disallows is on the frontier or has been fetched as a page.
RobotsRespected ==
    respect_robots =>
        /\ \A k \in DOMAIN queue : isAllowed(queue[k][1])
        /\ \A u \in DOMAIN gets : isAllowed(u)

(***************************************************************************)
(* Properties of one _check_link call (SpecLink).                          *)
(***************************************************************************)
\* the reply the call's last request settled with
LastReply(c) == IF c.get_reply # None THEN c.get_reply[1] ELSE c.head_reply[1]

\* C7 (severity mapping): the LinkResult of a call whose last request got a
\* response carries that response's status, and its severity is 'error' for a
\* status >= 400, else 'warning' for a status in [300,399] or a response time
\* above 5.0 s, else 'success'.
SeverityMapping ==
    \A id \in DOMAIN ctasks :
        (ctasks[id].pc = "done" /\ LastReply(ctasks[id]).kind = "response")
        => LET r == ctasks[id].result[1]
               status == LastReply(ctasks[id]).status_code
               rt == LastReply(ctasks[id]).elapsed
           IN  /\ r.status_code = Some(status)
               /\ r.response_time = rt
               /\ r.severity =
                    IF status >= 400 THEN "error"
                    ELSE IF (status >= 300 /\ status <= 399) \/ rt > 50 THEN "warning"
                    ELSE "success"
               /\ (status = 404 => r.severity = "error")
               /\ (status = 200 /\ rt = 60 => r.severity = "warning")
               /\ (status = 200 /\ rt = 2 => r.severity = "success")

\* a call returned for a 200 response that took exactly 5.0 s
SeverityMappingWitness ==
    \E id \in DOMAIN ctasks :
        /\ ctasks[id].pc = "done"
        /\ LastReply(ctasks[id]) = Response(200, 50, "text/html")

\* C8 (transport outcomes): a call whose last request timed out returns status None,
\* severity 'error', message 'Request timeout' and the configured timeout as its
\* response time; one whose last request raised anything else returns status None,
\* severity 'error', response time 0.0 and the exception's text; no call raises.
TransportOutcomes ==
    \A id \in DOMAIN ctasks :
        /\ ctasks[id].pc # "raised"
        /\ (ctasks[id].pc = "done" /\ LastReply(ctasks[id]).kind # "response")
           => LET r == ctasks[id].result[1]
                  e == LastReply(ctasks[id])
              IN  /\ r.status_code = None
                  /\ r.severity = "error"
                  /\ r.source_url = ctasks[id].source_url
                  /\ r.target_url = ctasks[id].target_url
                  /\ IF e.kind = "TimeoutException"
                     THEN r.response_time = timeout
                          /\ r.error_message = Some(<<"Request timeout">>)
                     ELSE r.response_time = 0
                          /\ r.error_message = Some(e.text)

\* a call on a crawler with a 3.0 s timeout returned after its GET timed out
TransportOutcomesWitness ==
    \E id \in DOMAIN ctasks :
        /\ ctasks[id].pc = "done"
        /\ ctasks[id].get_reply = Some(TimeoutException)
        /\ timeout = 30

\* C9 (HEAD-to-GET fallback), as claimed: a call whose HEAD was answered with
\* status 405 sent exactly one GET after it and returns the GET response's status
\* and severity.
HeadRejectedFallsBack ==
    \A id \in DOMAIN ctasks :
        (/\ ctasks[id].pc = "done"
         /\ ctasks[id].head_reply # None
         /\ ctasks[id].head_reply[1].kind = "response"
         /\ ctasks[id].head_reply[1].status_code = 405)
        => /\ ctasks[id].sent = <<"HEAD", "GET">>
           /\ ctasks[id].get_reply # None
           /\ ctasks[id].get_reply[1].kind = "response"
           /\ ctasks[id].result[1].status_code
                = Some(ctasks[id].get_reply[1].status_code)

\* the page GET of a task settled with a status below 400 and an HTML content type
FetchedHtml(t) ==
    /\ t.reply # None
    /\ t.reply[1].kind = "response"
    /\ t.reply[1].status_code < 400
    /\ t.reply[1].content_type = "text/html"

\* the links extracted from each page of the sites, computed once
SiteLinks ==
    [u \in {Seed, PageA, PageB, PageC, SimpleSeed, SimpleSeed \o <<"/page1">>,
            ExternalSeed, AssetSeed} |-> _extract_links(Html(u), u)]

\* the links _extract_links returns for the page at url
LinksOf(url) ==
    IF url \in DOMAIN SiteLinks THEN SiteLinks[url] ELSE _extract_links(Html(url), url)

\* urlparse(url).netloc, computed once for the URLs of the sites and their links
SiteNetlocs ==
    [u \in DOMAIN SiteLinks \cup UNION {SiteLinks[p] : p \in DOMAIN SiteLinks} |->
        urlparse(u).netloc]

NetlocOf(url) ==
    IF url \in DOMAIN SiteNetlocs THEN SiteNetlocs[url] ELSE urlparse(url).netloc

\* how many entries of self.results record the edge source_url -> target_url
Edges(source_url, target_url) ==
    Cardinality({k \in DOMAIN results : /\ results[k].source_url = source_url
                                        /\ results[k].target_url = target_url})

\* C11 (one result per extracted link): once the task of a page whose GET returned
\* an HTML response of status < 400 has finished, the results list holds exactly
\* one LinkResult from that page to each link extracted from it, whatever the
\* interleaving of the link checks; no result records an edge to a link that was
\* not extracted from its source page, and no edge is recorded twice.
OneResultPerLink ==
    /\ \A i \in DOMAIN ptasks :
          (ptasks[i].pc = "done" /\ FetchedHtml(ptasks[i]))
          => \A l \in LinksOf(ptasks[i].url) : Edges(ptasks[i].url, l) = 1
    /\ \A k \in DOMAIN results :
          /\ results[k].source_url # results[k].target_url
              => results[k].target_url \in LinksOf(results[k].source_url)
          /\ \A j \in DOMAIN results :
                (/\ results[j].source_url = results[k].source_url
                 /\ results[j].target_url = results[k].target_url) => j = k

\* the crawl returned after two pages of one layer, both HTML, had their links
\* checked concurrently; both link to /c
OneResultPerLinkWitness ==
    /\ pc = "returned"
    /\ \E i, j \in DOMAIN ptasks :
          /\ ptasks[i].url = PageA /\ FetchedHtml(ptasks[i])
          /\ ptasks[j].url = PageB /\ FetchedHtml(ptasks[j])
    /\ Edges(PageA, PageC) = 1
    /\ Edges(PageB, PageC) = 1
    /\ Edges(PageA, <<SchemeTok, "other.org">>) = 1

Page1 == <<SchemeTok, "simple.test", "/page1">>

\* every request of the crawl was answered 200, every page as HTML
AllReturned200 ==
    /\ failures = {}
    /\ \A i \in DOMAIN ptasks :
          ptasks[i].reply = Some(Response(200, 2, "text/html"))

\* C12 (two-page crawl): a crawl with max_depth = 1 of the site whose home page
\* links only to /page1, which links nowhere, every request answered 200, returns
\* with pages_crawled = 2, a results list holding the single LinkResult home ->
\* /page1 of severity 'success', and an empty frontier.
TwoPageCrawl ==
    (pc = "returned" /\ start_url = SimpleSeed /\ max_depth = 1 /\ AllReturned200)
    => /\ pages_crawled = 2
       /\ results = << LinkResult(SimpleSeed, Page1, "page", Some(200), 2,
                                  "success", None) >>
       /\ queue = <<>>
       /\ visited = {SimpleSeed, Page1}

\* that crawl returned after fetching both pages
TwoPageCrawlWitness ==
    /\ pc = "returned" /\ start_url = SimpleSeed /\ max_depth = 1 /\ AllReturned200
    /\ Len(ptasks) = 2
    /\ ptasks[2].url = Page1

\* the URLs waiting in the frontier
Queued == {queue[k][1] : k \in DOMAIN queue}

\* C13 (broken links are not crawled): a link result of status 404 has severity
\* 'error'; and a URL other than the seed that is in the frontier, in visited or
\* was fetched as a page has a link result of a severity other than 'error', so a
\* URL whose link checks all yield 'error' is never enqueued, visited or fetched.
BrokenLinkNotCrawled ==
    /\ \A k \in DOMAIN results :
          results[k].status_code = Some(404) => results[k].severity = "error"
    /\ \A u \in (Queued \cup visited \cup DOMAIN gets) \ {start_url} :
          \E k \in DOMAIN results :
              /\ results[k].target_url = u
              /\ results[k].source_url # u
              /\ results[k].severity # "error"

\* the crawl returned: the check of /b answered 404 and /b was left alone, while
\* its sibling /a was fetched
BrokenLinkNotCrawledWitness ==
    /\ pc = "returned"
    /\ \E k \in DOMAIN results :
          /\ results[k].source_url = Seed /\ results[k].target_url = PageB
          /\ results[k].status_code = Some(404) /\ results[k].severity = "error"
    /\ PageB \notin visited
    /\ PageB \notin DOMAIN gets
    /\ PageA \in DOMAIN gets

OtherOrg == <<SchemeTok, "other.org">>
OtherOrgLogo == <<SchemeTok, "other.org", "/logo", ".png">>

\* the links extracted from the home page that lead to another host
ForeignLinks ==
    {l \in LinksOf(start_url) : NetlocOf(l) # domain}

\* the home page was fetched as HTML and its task has finished
HomeDone ==
    \E i \in DOMAIN ptasks :
        ptasks[i].url = start_url /\ ptasks[i].pc = "done" /\ FetchedHtml(ptasks[i])

\* no page task, page GET or link extraction on a URL of another host
NoForeignFetch ==
    /\ \A u \in DOMAIN gets : NetlocOf(u) = domain
    /\ \A i \in DOMAIN ptasks : NetlocOf(ptasks[i].url) = domain
    /\ \A id \in DOMAIN ctasks : NetlocOf(ctasks[id].source_url) = domain

\* C14 (external links), as claimed: every link of the home page to a URL of
\* another host gives exactly one LinkResult, of link_type 'external', and no URL
\* of another host is fetched as a page or has links extracted.
ExternalEdgeTyped ==
    /\ NoForeignFetch
    /\ HomeDone =>
          \A l \in ForeignLinks :
              /\ Edges(start_url, l) = 1
              /\ \A k \in DOMAIN results :
                    (results[k].source_url = start_url /\ results[k].target_url = l)
                    => results[k].link_type = "external"

\* C14 (external links), amended: every link of the home page to a URL of another
\* host gives exactly one LinkResult, of link_type 'external' unless the URL ends
\* in an image, .css or .js extension, which decides the type first; no URL of
\* another host is fetched as a page or has links extracted.
ExternalEdge ==
    /\ NoForeignFetch
    /\ HomeDone =>
          \A l \in ForeignLinks :
              /\ Edges(start_url, l) = 1
              /\ \A k \in DOMAIN results :
                    (results[k].source_url = start_url /\ results[k].target_url = l)
                    => results[k].link_type =
                          (LET last == Lower(l[Len(l)])
                           IN  IF last \in ImageExts THEN "image"
                               ELSE IF last = ".css" THEN "css"
                               ELSE IF last = ".js" THEN "js"
                               ELSE "external")

\* the crawl of the site whose home page links to https://other.org and to
\* https://other.org/logo.png returned: one 'external' and one 'image' result,
\* and the home page is the only page fetched
ExternalEdgeWitness ==
    /\ pc = "returned"
    /\ start_url = ExternalSeed
    /\ HomeDone
    /\ \E k \in DOMAIN results :
          results[k].target_url = OtherOrg /\ results[k].link_type = "external"
    /\ \E k \in DOMAIN results :
          results[k].target_url = OtherOrgLogo /\ results[k].link_type = "image"
    /\ DOMAIN gets = {ExternalSeed}

PagesForAnalysisFetched ==
    pc = "returned"
    => \A u \in get_pages_for_seo_analysis :
          /\ _is_same_domain(u)
          /\ \E i \in DOMAIN ptasks :
                /\ ptasks[i].url = u
                /\ ptasks[i].reply # None
                /\ ptasks[i].reply[1].kind = "response"
                /\ ptasks[i].reply[1].status_code = 200

(***************************************************************************)
(* Properties of select_stratified_sample (SpecSample).                    *)
(***************************************************************************)
\* C15 (mandatory inclusion): the list returned contains the homepage whenever
\* the homepage is in pages, and every page of pages whose depth in the depth map
\* is exactly 1, whatever the rate and the random draw.
MandatoryInclusion ==
    sample.pc = "returned"
    => /\ sample.homepage \in Range(sample.all_pages)
            => sample.homepage \in Range(sample.result)
       /\ \A u \in Range(sample.all_pages) :
            (u \in DOMAIN sample.depth_map /\ sample.depth_map[u] = 1)
            => u \in Range(sample.result)

\* a call with rate 0 on three pages, the homepage and a depth-1 page among them,
\* returned exactly those two
MandatoryInclusionWitness ==
    /\ sample.pc = "returned"
    /\ sample.sample_rate = 0
    /\ Len(sample.all_pages) = 3
    /\ Seed \in Range(sample.all_pages)
    /\ \E u \in Range(sample.all_pages) \ {Seed} :
          u \in DOMAIN sample.depth_map /\ sample.depth_map[u] = 1
    /\ Len(sample.result) = 2

\* the pages of the list that are the homepage or have depth exactly 1
MandatoryCount ==
    Cardinality({u \in Range(sample.all_pages) :
                    \/ u = sample.homepage
                    \/ (u \in DOMAIN sample.depth_map /\ sample.depth_map[u] = 1)})

RecordWrittenOnce ==
    /\ Len(db.writes) <= 1
    /\ db.writes = <<>> => db.status = "running"
    /\ db.writes # <<>> => /\ db.status = db.writes[1]
                           /\ db.status \in {"completed", "failed"}

\* C20 (failed crawls), as claimed: once the caller has ended after an exception
\* escaped the crawl/save/complete sequence, the record has status 'failed' and
\* totals 0 and 0; and no record of status 'failed' has a non-zero total.
FailedZeroTotals ==
    /\ (cmd.pc \in {"exit", "raised"}
        /\ cmd.raised \in {"save_link_result", "complete_crawl"})
       => (db.status = "failed" /\ db.total_pages = 0 /\ db.total_links = 0)
    /\ db.status = "failed" => (db.total_pages = 0 /\ db.total_links = 0)

(***************************************************************************)
(* Properties of _normalize_url (SpecNormalize).                           *)
(***************************************************************************)
\* the tokens of a URL that are in S, in order
Only(url, S) == SelectSeq(url, LAMBDA t : t \in S)

\* C21 (normalization): the value _normalize_url(u, b) returns has no fragment and
\* keeps the query string of the resolved reference; 'page.html' and '/about'
\* against https://example.com give https://example.com/page.html and
\* https://example.com/about, and '.../test#anchor' gives '.../test'; normalizing
\* the returned value again against b returns it unchanged.
NormalizeIdempotent ==
    /\ call.pc \in {"returned", "again"}
       => /\ Only(call.result, FragTokens) = <<>>
          /\ Only(call.result, QueryTokens) =
                (IF Only(call.url, FragTokens) = call.url
                 THEN Only(call.base_url, QueryTokens)
                 ELSE Only(call.url, QueryTokens))
          /\ (call.url = <<"page.html">> /\ call.base_url = Seed)
             => call.result = <<SchemeTok, "example.com", "/page.html">>
          /\ (call.url = <<"/about">> /\ call.base_url = Seed)
             => call.result = <<SchemeTok, "example.com", "/about">>
          /\ call.url = <<SchemeTok, "example.com", "/test", "#anchor">>
             => call.result = <<SchemeTok, "example.com", "/test">>
    /\ call.pc = "again" => call.again = call.result

\* a relative reference with a query and a fragment, found on a page below the
\* root, was normalized twice
NormalizeIdempotentWitness ==
    /\ call.pc = "again"
    /\ call.url = <<"page.html", "?v=1", "#top">>
    /\ call.base_url = Seed \o <<"/dir", "/page">>
    /\ call.result = <<SchemeTok, "example.com", "/dir", "/page.html", "?v=1">>
    /\ call.again = call.result

(***************************************************************************)
(* Properties of _get_link_type (SpecClassify).                            *)
(***************************************************************************)
\* the last token of the classified URL, in lower case
CallSuffix == Lower(call.url[Len(call.url)])

\* C22 (classification): _get_link_type returns one of page, image, css, js,
\* external: image for a URL ending in an image extension, css for .css, js for
\* .js, in any letter case and whatever the host; for the other URLs, external
\* when the host differs from the start URL's host and page otherwise. An asset of
\* another host is never 'external'.
ClassificationOrder ==
    call.pc = "returned"
    => /\ call.result \in {"page", "image", "css", "js", "external"}
       /\ CallSuffix \in ImageExts => call.result = "image"
       /\ CallSuffix = ".css" => call.result = "css"
       /\ CallSuffix = ".js" => call.result = "js"
       /\ CallSuffix \notin ImageExts \cup {".css", ".js"}
          => call.result = (IF call.url[2] = "example.com" THEN "page" ELSE "external")

\* https://other.org/a.PNG was classified 'image'
ClassificationOrderWitness ==
    /\ call.pc = "returned"
    /\ call.url = <<SchemeTok, "other.org", "/a", ".PNG">>
    /\ call.result = "image"

(***************************************************************************)
(* Termination of the crawl (SpecFair).                                    *)
(***************************************************************************)
\* no page task and no link check is unfinished
NoTaskInFlight ==
    /\ \A i \in DOMAIN ptasks : ptasks[i].pc = "done"
    /\ \A id \in DOMAIN ctasks : ctasks[id].pc = "done"

\* C23 (termination): on every site of the model (the one of example.com has the
\* cycle /a -> /c -> /a), for every max_depth and max_concurrent, when every step
\* that is ready is eventually run and every request settles, crawl() eventually
\* returns; and whenever it has returned the frontier is empty and no task is
\* unfinished.
CrawlTerminates ==
    /\ <>(pc = "returned")
    /\ [](pc = "returned" => queue = <<>> /\ NoTaskInFlight)

\* crawl() returned after it went round the cycle of example.com, one request
\* at a time
CrawlTerminatesWitness ==
    /\ pc = "returned"
    /\ start_url = Seed
    /\ max_depth = MaxDepthBound
    /\ max_concurrent = 1
    /\ {PageA, PageC} \subseteq visited
    /\ HasResult(PageC, PageA, {"success"})

(***************************************************************************)
(* Cancellation of the crawl (SpecCancel).                                 *)
(***************************************************************************)
\* C24 (external cancellation), as claimed: a cancelled crawl() launches no
\* further work and returns the results accumulated so far; it does not end in
\* the CancelledError.
CancelReturnsPartial ==
    pc # "cancelled"

\* what holds of a cancelled crawl(): nothing is left running, nothing further
\* is launched, and the results recorded so far stay on the crawler
CancelStopsWork ==
    pc = "cancelled"
    => /\ \A i \in DOMAIN ptasks : ptasks[i].pc \in {"done", "cancelled"}
       /\ \A id \in DOMAIN ctasks : ctasks[id].pc \in {"done", "cancelled"}
       /\ semaphore = max_concurrent
       /\ ~ENABLED Next

(***************************************************************************)
(* Properties of Config.merge_with_args (SpecMerge).                       *)
(***************************************************************************)
\* C25 (config merge): the Config returned holds, in each field, the argument of
\* that name when one was passed and is not None, and the value of the original
\* otherwise; the original holds what it held before the call.
MergeTakesArgs ==
    call.pc = "returned"
    => /\ \A key \in ConfigFields :
             call.result[key] =
                 (IF key \in DOMAIN call.kwargs /\ call.kwargs[key] # None
                  THEN call.kwargs[key] ELSE call.original[key])
       /\ call.self = call.original

\* the merge of the test: the file gives url and output_format html, the command
\* line depth 5 and output_format json, and max_concurrent as None
MergeTakesArgsWitness ==
    /\ call.pc = "returned"
    /\ call.original = YamlConfig
    /\ call.kwargs = [depth |-> Some(5), output_format |-> Some("json"),
                      max_concurrent |-> None]
    /\ call.result = [YamlConfig EXCEPT !.depth = Some(5), !.output_format = Some("json")]

(***************************************************************************)
(* The frontier and the maps of the crawl (Spec).                          *)
(***************************************************************************)
\* C26 (frontier ordering): the depths of the frontier entries never decrease
\* from head to tail; while the batch of depth d is awaited every frontier entry
\* has depth d+1; and the page tasks were created in non-decreasing depth order,
\* so every entry of depth d is dequeued before any of depth d+1.
FrontierOrdered ==
    /\ \A j, k \in DOMAIN queue : j < k => queue[j][2] <= queue[k][2]
    /\ pc = "gather"
       => \A i \in awaited : \A k \in DOMAIN queue : queue[k][2] = ptasks[i].depth + 1
    /\ \A i, j \in DOMAIN ptasks : i < j => ptasks[i].depth <= ptasks[j].depth

\* the batch of depth 1 is awaited, one of its tasks has appended to the
\* frontier and another is still running
FrontierOrderedWitness ==
    /\ pc = "gather"
    /\ queue # <<>>
    /\ \E i, j \in awaited :
          /\ ptasks[i].depth = 1 /\ ptasks[i].pc = "done"
          /\ ptasks[j].depth = 1 /\ ptasks[j].pc # "done"

\* C27 (depth map is write-once): a step of the crawl gives a depth only to the
\* URLs that enter visited in that step, and leaves every entry the map already
\* has as it is; the map has an entry for each visited URL and for no other.
DepthMapWriteOnce ==
    [][/\ \A u \in DOMAIN depth_map : u \in DOMAIN depth_map' /\ depth_map'[u] = depth_map[u]
       /\ \A u \in DOMAIN depth_map' : u \notin DOMAIN depth_map => u \in visited' \ visited
       /\ DOMAIN depth_map' = visited']_vars

\* the crawl returned with /a recorded at depth 1 and /c at depth 2, after the
\* link of /c back to /a was checked
DepthMapWriteOnceWitness ==
    /\ pc = "returned"
    /\ PageA \in DOMAIN depth_map /\ depth_map[PageA] = 1
    /\ PageC \in DOMAIN depth_map /\ depth_map[PageC] = 2
    /\ HasResult(PageC, PageA, {"success"})

\* C28 (no duplicate enqueue), as claimed: the frontier never holds two entries
\* with the same URL.
NoDuplicateEnqueue ==
    \A j, k \in DOMAIN queue : queue[j][1] = queue[k][1] => j = k

\* C29 (visited holds normalized URLs only), as claimed: every member of visited,
\* the start URL included, is its own normalization, so no two members denote
\* the same normalized URL.
VisitedNormalized ==
    /\ \A u \in visited : _normalize_url(u, base_domain) = u
    /\ \A u, v \in visited :
          _normalize_url(u, base_domain) = _normalize_url(v, base_domain) => u = v

\* visited loses no member while the crawl runs
VisitedGrows ==
    [][pc # "idle" => visited \subseteq visited']_vars

\* the page task i ends in this step on a response of status >= 400
FailsOnStatus(i) ==
    /\ ptasks[i].pc = "get"
    /\ ptasks'[i].pc = "done"
    /\ ptasks'[i].reply # None
    /\ ptasks'[i].reply[1].kind = "response"
    /\ ptasks'[i].reply[1].status_code >= 400

\* C30 (failed page fetch): the step in which the GET of a same-origin page is
\* answered with a status >= 400 appends exactly one LinkResult, with source =
\* target = the page, link_type 'page', that status, severity 'error' and the
\* message 'HTTP <code>'; it creates no link check, leaves the frontier and
\* pages_crawled as they are, and the task is done.
FailedPageFetch ==
    [][\A i \in DOMAIN ptasks :
          FailsOnStatus(i)
          => /\ _is_same_domain(ptasks[i].url)
             /\ Len(results') = Len(results) + 1
             /\ SubSeq(results', 1, Len(results)) = results
             /\ LET r == results'[Len(results')]
                    code == ptasks'[i].reply[1].status_code
                IN  /\ r.source_url = ptasks[i].url
                    /\ r.target_url = ptasks[i].url
                    /\ r.link_type = "page"
                    /\ r.status_code = Some(code)
                    /\ r.severity = "error"
                    /\ r.error_message = Some(<<"HTTP ", ToString(code)>>)
             /\ ctasks' = ctasks
             /\ ptasks'[i].checks = 0
             /\ queue' = queue
             /\ pages_crawled' = pages_crawled]_vars

\* the GET of /a was answered 404 after the home page had been crawled: /a has its
\* one error result, none of its links was checked, and the crawl returned with
\* one page crawled
FailedPageFetchWitness ==
    /\ pc = "returned"
    /\ start_url = Seed
    /\ pages_crawled = 1
    /\ \E i \in DOMAIN ptasks :
          /\ ptasks[i].url = PageA
          /\ ptasks[i].reply = Some(Response(404, 2, "text/html"))
          /\ ptasks[i].checks = 0
    /\ \E k \in DOMAIN results :
          /\ results[k].source_url = PageA /\ results[k].target_url = PageA
          /\ results[k].error_message = Some(<<"HTTP ", "404">>)
    /\ ~\E k \in DOMAIN results : results[k].source_url = PageA /\ results[k].target_url = PageC
    /\ PageC \notin visited

(***************************************************************************)
(* Properties of the crawl with respect_robots at its default (SpecCrawl). *)
(***************************************************************************)
\* the GET of page task i is answered in this step with a status below 400 and a
\* content type other than text/html
FetchesNonHtml(i) ==
    /\ ptasks[i].pc = "get"
    /\ ptasks'[i].reply # None
    /\ ptasks'[i].reply[1].kind = "response"
    /\ ptasks'[i].reply[1].status_code < 400
    /\ ptasks'[i].reply[1].content_type # "text/html"

\* C31 (non-HTML page): the step in which the GET of a same-origin page is
\* answered with a status below 400 and a content type that is not text/html adds
\* exactly 1 to pages_crawled, leaves results and the frontier as they are,
\* creates no link check and ends the task, which so changes neither afterwards.
NonHtmlPage ==
    [][\A i \in DOMAIN ptasks :
          FetchesNonHtml(i)
          => /\ _is_same_domain(ptasks[i].url)
             /\ pages_crawled' = pages_crawled + 1
             /\ results' = results
             /\ queue' = queue
             /\ ctasks' = ctasks
             /\ ptasks'[i].pc = "done"
             /\ ptasks'[i].checks = 0]_vars

\* the home page of example.com was answered 200 text/plain: the crawl returned
\* with one page crawled, no result and nothing else visited
NonHtmlPageWitness ==
    /\ pc = "returned"
    /\ start_url = Seed
    /\ max_depth = MaxDepthBound
    /\ \E i \in DOMAIN ptasks :
          ptasks[i].url = Seed /\ ptasks[i].reply = Some(Response(200, 2, "text/plain"))
    /\ pages_crawled = 1
    /\ results = <<>>
    /\ visited = {Seed}

(***************************************************************************)
(* The page with a malformed link (SpecMalformed).                         *)
(***************************************************************************)
\* the page /m of bad.test was fetched as HTML and its task is done
MalformedPageDone ==
    \E i \in DOMAIN ptasks :
        /\ ptasks[i].url = MalformedPage
        /\ ptasks[i].pc = "done"
        /\ ptasks[i].reply = Some(Response(200, 2, "text/html"))

\* C32 (malformed link is skipped silently), as claimed: once the page with the
\* malformed link has been processed, the page has no error result of its own,
\* the malformed link has no result, and the other link of the page, /ok, was
\* checked and has its result.
MalformedLinkSkipped ==
    MalformedPageDone
    => /\ ~HasResult(MalformedPage, MalformedPage, {"error"})
       /\ \A k \in DOMAIN results : results[k].target_url \notin MalformedRefs
       /\ HasResult(MalformedPage, MalformedSeed \o <<"/ok">>,
                    {"success", "warning", "error"})

\* the link checks that are between acquiring and releasing the semaphore
HeldSlots == {id \in DOMAIN ctasks : ctasks[id].pc \in {"head", "get"}}

\* C33 (slot release): the free slots of the semaphore are max_concurrent less the
\* link checks that have a request in flight, so a check that has returned, on a
\* response, a timeout or another exception, holds no slot; and when crawl() has
\* returned every slot is free.
SlotsReleased ==
    /\ semaphore = max_concurrent - Cardinality(HeldSlots)
    /\ pc = "returned" => semaphore = max_concurrent

\* crawl() returned with one slot, after a check that timed out, a check answered
\* 404 and a check whose HEAD was rejected and whose GET was answered
SlotsReleasedWitness ==
    /\ pc = "returned"
    /\ max_concurrent = 1
    /\ semaphore = 1
    /\ \E j, k, l \in DOMAIN results :
          /\ results[j].error_message = Some(<<"Request timeout">>)
          /\ results[k].status_code = Some(404)
          /\ results[l].source_url = PageA /\ results[l].severity = "success"
    /\ \E f \in failures : f[1] # f[2]

\* C37 (link-check bound): at most max_concurrent link checks are between
\* acquiring and releasing the semaphore, over all pages of the layer.
LinkCheckBound ==
    Cardinality(HeldSlots) <= max_concurrent

\* checks of /a and of /b hold the two slots while a third check waits
LinkCheckBoundWitness ==
    /\ max_concurrent = MaxConcurrentBound
    /\ semaphore = 0
    /\ \E id1, id2, id3 \in DOMAIN ctasks :
          /\ ctasks[id1].source_url = PageA /\ id1 \in HeldSlots
          /\ ctasks[id2].source_url = PageB /\ id2 \in HeldSlots
          /\ ctasks[id3].pc = "acquire"

(***************************************************************************)
(* The second crawl on one crawler (SpecAgain).                            *)
(***************************************************************************)
\* C34 (fresh state per crawl), as claimed: when an invocation of crawl() starts
\* processing, the frontier is [(start_url, 0)], visited and results are empty,
\* pages_crawled is 0 and the depth map is empty.
FreshState ==
    (pc = "loop" /\ visited = {})
    => /\ queue = << <<start_url, 0>> >>
       /\ results = <<>>
       /\ pages_crawled = 0
       /\ DOMAIN depth_map = {}

\* what the second crawl leaves visible of the first: a depth for a URL the second
\* crawl never visited
StaleDepthAfterCrawl ==
    /\ pc = "returned"
    /\ call # <<>>
    /\ \E u \in DOMAIN depth_map : u \notin visited

(***************************************************************************)
(* Which URLs are fetched as pages (Spec).                                 *)
(***************************************************************************)
\* C35 (page fetch precondition), as claimed: every URL for which _crawl_page
\* issued a page GET, the start URL included, is of the start URL's host and is
\* classified 'page'.
PageFetchPrecondition ==
    \A u \in DOMAIN gets : _is_same_domain(u) /\ _get_link_type(u) = "page"

\* what holds: the test before the page GET is the origin test alone
PageFetchSameOrigin ==
    \A u \in DOMAIN gets : _is_same_domain(u) /\ (u # start_url => _get_link_type(u) = "page")

(***************************************************************************)
(* The extension of the path (SpecClassify).                               *)
(***************************************************************************)
\* the last token of the path of the classified URL, in lower case
CallPathSuffix ==
    LET path == urlparse(call.url).path
    IN  IF path = <<>> THEN "" ELSE Lower(path[Len(path)])

\* C36 (extension matching is on the path suffix), as claimed: the type is decided
\* from the end of the URL's path alone: a path ending in an image extension gives
\* 'image', in .css 'css', in .js 'js', with or without a query string; a URL of
\* the start host whose path has no such extension is 'page' whatever its query
\* ends in.
ExtensionOnPathSuffix ==
    call.pc = "returned"
    => /\ CallPathSuffix \in ImageExts => call.result = "image"
       /\ CallPathSuffix = ".css" => call.result = "css"
       /\ CallPathSuffix = ".js" => call.result = "js"
       /\ (CallPathSuffix \notin ImageExts \cup {".css", ".js"}
             /\ call.url[2] = "example.com")
          => call.result = "page"

(***************************************************************************)
(* The page counter and the recorded depths (SpecCrawl).                   *)
(***************************************************************************)
\* the page GET of u was answered with a status below 400
FetchedOk(u) ==
    \E i \in DOMAIN ptasks :
        /\ ptasks[i].url = u
        /\ ptasks[i].reply # None
        /\ ptasks[i].reply[1].kind = "response"
        /\ ptasks[i].reply[1].status_code < 400

\* the error results that have u as source and as target
OwnErrors(u) ==
    {k \in DOMAIN results :
        /\ results[k].source_url = u
        /\ results[k].target_url = u
        /\ results[k].severity = "error"}

\* C38 (page counter accounting): pages_crawled never decreases and never exceeds
\* the number of visited URLs; when crawl() has returned it is the number of
\* visited URLs whose page GET was answered with a status below 400, and every
\* other visited URL has exactly one error result with itself as source and target.
PageCounterAccounting ==
    /\ [][pages_crawled' >= pages_crawled]_vars
    /\ [](pages_crawled <= Cardinality(visited))
    /\ [](pc = "returned"
          => /\ pages_crawled = Cardinality({u \in visited : FetchedOk(u)})
             /\ \A u \in visited : ~FetchedOk(u) => Cardinality(OwnErrors(u)) = 1)

\* the crawl of example.com returned with four URLs visited, two of them counted,
\* /b answered 404 and the GET of /c timed out
PageCounterAccountingWitness ==
    /\ pc = "returned"
    /\ visited = {Seed, PageA, PageB, PageC}
    /\ pages_crawled = 2
    /\ \E k \in OwnErrors(PageB) : results[k].status_code = Some(404)
    /\ \E k \in OwnErrors(PageC) : results[k].error_message = Some(<<"timed out">>)

\* the pages with a link to u that passed the enqueue rule but for the visited
\* test: a non-error result of type 'page', found on a page above max_depth
Linkers(u) ==
    {results[k].source_url : k \in {j \in DOMAIN results :
        /\ results[j].target_url = u
        /\ results[j].link_type = "page"
        /\ results[j].severity # "error"
        /\ results[j].source_url \in DOMAIN depth_map
        /\ depth_map[results[j].source_url] < max_depth}}

PersistedTotals ==
    (db # <<>> /\ db.status = "completed")
    => /\ db.total_links = Len(db.rows)
       /\ db.rows = results
       /\ db.total_pages = pages_crawled

\* the web task completed the record of the crawl of ext.test: one page, two
\* link results stored
PersistedTotalsWitness ==
    /\ cmd.kind = "web"
    /\ cmd.pc = "done"
    /\ db.status = "completed"
    /\ start_url = ExternalSeed
    /\ db.total_pages = 1
    /\ db.total_links = 2
    /\ Len(db.rows) = 2

====
